---- MODULE Spec2Model ----
(***************************************************************************)
(* OpenVPN data channel accelerator (ovpn-dco).                            *)
(*                                                                         *)
(* Part 1: the receive side packet-id replay detector of                   *)
(*         net/ovpn-dco/pktid.c (__ovpn_pktid_recv / ovpn_pktid_recv).     *)
(* Part 2: the RX and TX datapath of net/ovpn-dco/ovpn.c.                  *)
(***************************************************************************)
EXTENDS Integers, FiniteSets, Sequences, Bags

(***************************************************************************)
(* Bounds of the model.                                                    *)
(***************************************************************************)
\* REPLAY_WINDOW_SIZE of pktid.h (window size W in bits), scaled down.
REPLAY_WINDOW_SIZE == 3
\* PKTID_RECV_EXPIRE of pktid.h (T_expire, in jiffies), scaled down.
PKTID_RECV_EXPIRE == 1
\* largest packet id presented to the detector
MaxId == 5
\* largest epoch (pkt_time) presented to the detector
MaxEpoch == 1
\* last value of jiffies the model lets the clock reach
MaxNow == 2
\* largest key id of a crypto context (3 bits in the opcode byte), scaled down
MaxKeyId == 0
\* how many crypto operations can be deferred at a time
MaxSkb == 1
\* bytes the encapsulation adds to a plaintext (opcode, packet id, tag),
\* scaled down
AeadOverhead == 3
MaxThreads == 2
XmitLimit == 4
MaxCalls == 4
MaxRaceId == 2

VARIABLES
    pr,        \* struct ovpn_pktid_recv
    now,       \* jiffies
    probe,     \* one packet <<pkt_id, pkt_time>>, fixed at the start, that is followed
    hits,      \* how many calls presenting the probe returned 0 so far (counted to 2)
    ret,       \* return value of the last call if it presented the probe, else NoCall
    peer,      \* struct ovpn_peer as ovpn->peer gives it, with its reference counts
    pending,   \* the deferred crypto operations (struct ovpn_work), a bag
    last,      \* how the packet handled last ended
    thr,       \* what each CPU is doing: its position in the call it is in
    lock,      \* holder of the spinlock of struct ovpn_pktid_recv, or NoThread
    seq_num,   \* struct ovpn_pktid_xmit, the atomic counter
    issued,    \* the packet ids handed out by next(), in the order of the returns
    seqpr      \* struct ovpn_pktid_recv after the same calls made one at a time

pktidVars == <<pr, now, probe, hits, ret>>
dpVars == <<peer, pending, last>>
smpVars == <<thr, lock, seq_num, issued, seqpr>>

vars == <<pktidVars, dpVars, smpVars>>

(***************************************************************************)
(* pktid.c                                                                 *)
(***************************************************************************)
W == REPLAY_WINDOW_SIZE

\* return values of __ovpn_pktid_recv (0 and the negated OVPN_ERR_PKTID_* codes)
OK == "0"
NoCall == "-"
ERR_ID_ZERO == "OVPN_ERR_PKTID_ID_ZERO"
ERR_TIME_BACKTRACK == "OVPN_ERR_PKTID_TIME_BACKTRACK"
ERR_REPLAY == "OVPN_ERR_PKTID_REPLAY"
ERR_EXPIRE == "OVPN_ERR_PKTID_EXPIRE"
ERR_ID_BACKTRACK == "OVPN_ERR_PKTID_ID_BACKTRACK"

\* REPLAY_INDEX(base, i): position i steps after base in the circular bitmap
REPLAY_INDEX(base, i) == (base + i) % W

\* time_after_eq(a, b) on jiffies (no wrap within MaxNow)
time_after_eq(a, b) == a >= b

\* ovpn_pktid_recv_init: memset(pr, 0, sizeof(*pr)).
\* history is the set of the positions of the bitmap whose bit is set.
ovpn_pktid_recv_init ==
    [base |-> 0, extent |-> 0, id |-> 0, id_floor |-> 0, time |-> 0,
     expire |-> 0, max_backtrack |-> 0, history |-> {}]

\* ExpireFloor with time_after in the place of time_after_eq
ExpireFloor_After(p, jiffies) ==
    IF jiffies > p.expire THEN [p EXCEPT !.id_floor = p.id] ELSE p

\* l.40-41: expire backtracks at or below pr->id after PKTID_RECV_EXPIRE time
ExpireFloor(p, jiffies) ==
    IF time_after_eq(jiffies, p.expire) THEN [p EXCEPT !.id_floor = p.id] ELSE p

\* TimeForward with the statement pr->id = 0 (l.53) left out
TimeForward_KeepId(p, pkt_time) ==
    [p EXCEPT !.base = 0, !.extent = 0, !.time = pkt_time, !.id_floor = 0]

\* l.49-55: time moved forward
TimeForward(p, pkt_time) ==
    [p EXCEPT !.base = 0, !.extent = 0, !.id = 0, !.time = pkt_time,
              !.id_floor = 0]

\* l.62-68: well-formed ID sequence (incremented by 1)
SeqAdvance(p, pkt_id) ==
    LET b == REPLAY_INDEX(p.base, -1) IN
    [p EXCEPT !.base = b,
              !.history = p.history \cup {b},
              !.extent = IF p.extent < W THEN p.extent + 1 ELSE p.extent,
              !.id = pkt_id]

\* JumpForward without the loop of l.79-82 that clears the skipped ids' bits
JumpForward_NoClear(p, pkt_id) ==
    LET delta == pkt_id - p.id IN
    IF delta < W
    THEN LET b == REPLAY_INDEX(p.base, -delta)
             e == p.extent + delta
         IN [p EXCEPT !.base = b,
                      !.history = p.history \cup {b},
                      !.extent = IF e > W THEN W ELSE e,
                      !.id = pkt_id]
    ELSE [p EXCEPT !.base = 0, !.extent = W, !.history = {0}, !.id = pkt_id]

\* JumpForward with pr->id = pkt_id (l.89) done in the delta < W branch only
JumpForward_NoIdOnReset(p, pkt_id) ==
    LET delta == pkt_id - p.id IN
    IF delta < W
    THEN LET b == REPLAY_INDEX(p.base, -delta)
             e == p.extent + delta
         IN [p EXCEPT !.base = b,
                      !.history = (p.history \cup {b})
                                  \ {REPLAY_INDEX(b, i) : i \in 1..(delta - 1)},
                      !.extent = IF e > W THEN W ELSE e,
                      !.id = pkt_id]
    ELSE [p EXCEPT !.base = 0, !.extent = W, !.history = {0}]

\* JumpForward with the loop of l.79-82 started at i = 2
JumpForward_ClearFromTwo(p, pkt_id) ==
    LET delta == pkt_id - p.id IN
    IF delta < W
    THEN LET b == REPLAY_INDEX(p.base, -delta)
             e == p.extent + delta
         IN [p EXCEPT !.base = b,
                      !.history = (p.history \cup {b})
                                  \ {REPLAY_INDEX(b, i) : i \in 2..(delta - 1)},
                      !.extent = IF e > W THEN W ELSE e,
                      !.id = pkt_id]
    ELSE [p EXCEPT !.base = 0, !.extent = W, !.history = {0}, !.id = pkt_id]

\* l.69-89: ID jumped forward by more than one
JumpForward(p, pkt_id) ==
    LET delta == pkt_id - p.id IN
    IF delta < W
    THEN LET b == REPLAY_INDEX(p.base, -delta)
             e == p.extent + delta
         IN [p EXCEPT !.base = b,
                      !.history = (p.history \cup {b})
                                  \ {REPLAY_INDEX(b, i) : i \in 1..(delta - 1)},
                      !.extent = IF e > W THEN W ELSE e,
                      !.id = pkt_id]
    ELSE [p EXCEPT !.base = 0, !.extent = W, !.history = {0}, !.id = pkt_id]

\* Backtrack without the test of the history bit (l.100-101)
Backtrack_NoBitTest(p, pkt_id) ==
    LET delta == p.id - pkt_id
        q == IF delta > p.max_backtrack
             THEN [p EXCEPT !.max_backtrack = delta] ELSE p
        ri == REPLAY_INDEX(p.base, delta)
    IN IF delta < p.extent
       THEN IF pkt_id > p.id_floor
            THEN [pr |-> [q EXCEPT !.history = q.history \cup {ri}], ret |-> OK]
            ELSE [pr |-> q, ret |-> ERR_EXPIRE]
       ELSE [pr |-> q, ret |-> ERR_ID_BACKTRACK]

\* Backtrack with the window test of l.95 off by one (delta <= pr->extent)
Backtrack_ExtentOffByOne(p, pkt_id) ==
    LET delta == p.id - pkt_id
        q == IF delta > p.max_backtrack
             THEN [p EXCEPT !.max_backtrack = delta] ELSE p
        ri == REPLAY_INDEX(p.base, delta)
    IN IF delta <= p.extent
       THEN IF pkt_id > p.id_floor
            THEN IF ri \in p.history
                 THEN [pr |-> q, ret |-> ERR_REPLAY]
                 ELSE [pr |-> [q EXCEPT !.history = q.history \cup {ri}],
                       ret |-> OK]
            ELSE [pr |-> q, ret |-> ERR_EXPIRE]
       ELSE [pr |-> q, ret |-> ERR_ID_BACKTRACK]

\* Backtrack with the history bit set (l.102) before the floor test (l.96)
Backtrack_MarkBeforeFloor(p, pkt_id) ==
    LET delta == p.id - pkt_id
        q == IF delta > p.max_backtrack
             THEN [p EXCEPT !.max_backtrack = delta] ELSE p
        ri == REPLAY_INDEX(p.base, delta)
    IN IF delta < p.extent
       THEN IF ri \in p.history /\ pkt_id > p.id_floor
            THEN [pr |-> q, ret |-> ERR_REPLAY]
            ELSE [pr |-> [q EXCEPT !.history = q.history \cup {ri}],
                  ret |-> IF pkt_id > p.id_floor THEN OK ELSE ERR_EXPIRE]
       ELSE [pr |-> q, ret |-> ERR_ID_BACKTRACK]

\* l.90-107: ID backtrack; gives the new *pr and the return value
Backtrack(p, pkt_id) ==
    LET delta == p.id - pkt_id
        q == IF delta > p.max_backtrack
             THEN [p EXCEPT !.max_backtrack = delta] ELSE p
        ri == REPLAY_INDEX(p.base, delta)
    IN IF delta < p.extent
       THEN IF pkt_id > p.id_floor
            THEN IF ri \in p.history
                 THEN [pr |-> q, ret |-> ERR_REPLAY]
                 ELSE [pr |-> [q EXCEPT !.history = q.history \cup {ri}],
                       ret |-> OK]
            ELSE [pr |-> q, ret |-> ERR_EXPIRE]
       ELSE [pr |-> q, ret |-> ERR_ID_BACKTRACK]

\* l.62-110: the id comparison, and on accept the new expire deadline
IdStep(p, pkt_id, jiffies) ==
    LET r == IF pkt_id = p.id + 1
             THEN [pr |-> SeqAdvance(p, pkt_id), ret |-> OK]
             ELSE IF pkt_id > p.id
                  THEN [pr |-> JumpForward(p, pkt_id), ret |-> OK]
                  ELSE Backtrack(p, pkt_id)
    IN IF r.ret = OK
       THEN [pr |-> [r.pr EXCEPT !.expire = jiffies + PKTID_RECV_EXPIRE],
             ret |-> OK]
       ELSE r

\* __ovpn_pktid_recv with the zero test (l.44-45) placed after the time test
__ovpn_pktid_recv_ZeroAfterTime(p, pkt_id, pkt_time, jiffies) ==
    LET p1 == ExpireFloor(p, jiffies)
        p2 == IF pkt_time > p1.time THEN TimeForward(p1, pkt_time) ELSE p1
    IN IF pkt_time < p1.time
       THEN [pr |-> p1, ret |-> ERR_TIME_BACKTRACK]
       ELSE IF pkt_id = 0
            THEN [pr |-> p2, ret |-> ERR_ID_ZERO]
            ELSE IdStep(p2, pkt_id, jiffies)

\* l.35-111: __ovpn_pktid_recv
__ovpn_pktid_recv(p, pkt_id, pkt_time, jiffies) ==
    LET p1 == ExpireFloor(p, jiffies) IN
    IF pkt_id = 0
    THEN [pr |-> p1, ret |-> ERR_ID_ZERO]
    ELSE IF pkt_time # p1.time
         THEN IF pkt_time > p1.time
              THEN IdStep(TimeForward(p1, pkt_time), pkt_id, jiffies)
              ELSE [pr |-> p1, ret |-> ERR_TIME_BACKTRACK]
         ELSE IdStep(p1, pkt_id, jiffies)

(***************************************************************************)
(* ovpn.c: the RX and TX datapath.                                         *)
(*                                                                         *)
(* A handler is one operator from the state and the inputs of the call to  *)
(* the sequence of the events it produces (its trace), in program order.   *)
(* An event is a pair <<name, argument>>.                                  *)
(***************************************************************************)
NULL == "NULL"
Ev(name) == <<<<name, 0>>>>
EvA(name, arg) == <<<<name, arg>>>>

\* number of events of trace t whose name is in the set names
Count(t, names) == Cardinality({i \in 1..Len(t) : t[i][1] \in names})

Names(t) == {t[i][1] : i \in 1..Len(t)}

\* return values
ZERO == "0"
EINPROGRESS == "-EINPROGRESS"
IsErr(r) == r # ZERO

\* proto.h: the opcode byte is opcode (5 bits) || key-id (3 bits)
OVPN_DATA_V1 == 6
OVPN_DATA_V2 == 9
OVPN_CONTROL_V1 == 4
OVPN_OPCODE_SHIFT == 3
OVPN_KEY_ID_MASK == 7
ovpn_opcode_extract(op) == op \div (2 ^ OVPN_OPCODE_SHIFT)
ovpn_key_id_extract(op) == op % (OVPN_KEY_ID_MASK + 1)
ovpn_opcode_is_data(op) == ovpn_opcode_extract(op) \in {OVPN_DATA_V1, OVPN_DATA_V2}
ovpn_opcode_compose(opcode, key_id) == opcode * (2 ^ OVPN_OPCODE_SHIFT) + key_id

\* the keepalive message, 16 bytes
KeepaliveMessage ==
    <<42, 24, 123, 243, 100, 30, 180, 203, 7, 237, 45, 10, 152, 31, 199, 72>>

\* payloads (plaintext): a sequence of bytes. The first byte of an IP packet
\* holds the version in its top nibble; the second byte stands for the
\* length the header declares.
Padded(head) == head \o [i \in 1..(Len(KeepaliveMessage) - Len(head)) |-> 0]
Payloads ==
    {<<>>, KeepaliveMessage, [KeepaliveMessage EXCEPT ![16] = 73],
     Padded(<<69, 16>>), Padded(<<96, 16>>), Padded(<<69, 17>>)}

\* skb.h: ovpn_is_keepalive, exact match against the keepalive message
ovpn_is_keepalive(data) == data = KeepaliveMessage

\* skb.h: pskb_may_pull(skb, n)
pskb_may_pull(data, n) == Len(data) >= n

\* proto.h: ovpn_ip_header_probe: 0 for an IPv4 or IPv6 header whose declared
\* length fits the buffer, an error for anything else
ovpn_ip_header_probe(data) ==
    IF /\ Len(data) >= 2
       /\ data[1] \div 16 \in {4, 6}
       /\ data[2] = Len(data)
    THEN ZERO ELSE "-EINVAL"

\* bind.h: ovpn_bind_skb_match: the packet's source is the binding's remote
PeerAddr == "A"
ovpn_bind_skb_match(bind, src) == src = PeerAddr

\* peer.h: ovpn_peer_get gives the installed peer with a reference, or NULL
ovpn_peer_get(p) == p.installed

\* crypto.h: ovpn_crypto_context_from_state gives the context of key_id with
\* a reference (event ovpn_crypto_context_get), or NULL (event
\* ovpn_crypto_context_NULL)
ovpn_crypto_context_from_state(p, key_id) == key_id \in p.keys

\* crypto.h: ovpn_crypto_context_primary gives the primary context with a
\* reference and its key id, or NULL
ovpn_crypto_context_primary(p) == p.primary

\* ovpn_peer_put(peer) as the handlers call it: on a peer, or on NULL
PeerPut(ref) == Ev(IF ref THEN "ovpn_peer_put" ELSE "ovpn_peer_put_NULL")

\* l.224: OVPN_SKB_CB(skb)->rx_stats_size = skb->len
StatsSaved(skb) == [len |-> skb.len, rx_stats_size |-> skb.len]

\* l.294: the outer UDP header is popped off the buffer
sizeof_udphdr == 8
__skb_pull(skb, n) == [skb EXCEPT !.len = @ - n]

\* the skb after a decrypt that succeeded: it holds the plaintext only
Decrypted(skb, plain) ==
    [len |-> Len(plain), rx_stats_size |-> skb.rx_stats_size, data |-> plain]

\* tun_netdev_write with the keepalive message treated as an error
tun_netdev_write_KeepaliveIsError(skb) ==
    LET head == Ev("rcu_read_lock") \o Ev("ovpn_peer_update_keepalive_expire")
                \o Ev("skb") \o EvA("ovpn_peer_stats_increment_rx", skb.rx_stats_size)
        r == ovpn_ip_header_probe(skb.data)
    IN IF IsErr(r)
       THEN [ret |-> "-EINVAL",
             trace |-> head \o Ev("kfree_skb") \o Ev("rcu_read_unlock")]
       ELSE [ret |-> ZERO,
             trace |-> head \o Ev("skb") \o Ev("rcu_read_unlock") \o Ev("netif_rx")]

\* l.54-129: tun_netdev_write
tun_netdev_write_CountsPlain(skb) ==
    LET head == Ev("rcu_read_lock") \o Ev("ovpn_peer_update_keepalive_expire")
                \o Ev("skb") \o EvA("ovpn_peer_stats_increment_rx", skb.len)
        r == ovpn_ip_header_probe(skb.data)
        dropret == IF ~pskb_may_pull(skb.data, 1) THEN "-EINVAL"
                   ELSE IF ovpn_is_keepalive(skb.data) THEN ZERO ELSE r
    IN IF IsErr(r)
       THEN [ret |-> dropret,
             trace |-> head
                       \o (IF IsErr(dropret) THEN Ev("kfree_skb") ELSE Ev("consume_skb"))
                       \o Ev("rcu_read_unlock")]
       ELSE [ret |-> ZERO,
             trace |-> head \o Ev("skb") \o Ev("rcu_read_unlock") \o Ev("netif_rx")]

tun_netdev_write(skb) ==
    LET head == Ev("rcu_read_lock") \o Ev("ovpn_peer_update_keepalive_expire")
                \o Ev("skb") \o EvA("ovpn_peer_stats_increment_rx", skb.rx_stats_size)
        r == ovpn_ip_header_probe(skb.data)
        dropret == IF ~pskb_may_pull(skb.data, 1) THEN "-EINVAL"
                   ELSE IF ovpn_is_keepalive(skb.data) THEN ZERO ELSE r
    IN IF IsErr(r)
       THEN [ret |-> dropret,
             trace |-> head
                       \o (IF IsErr(dropret) THEN Ev("kfree_skb") ELSE Ev("consume_skb"))
                       \o Ev("rcu_read_unlock")]
       ELSE [ret |-> ZERO,
             trace |-> head \o Ev("skb") \o Ev("rcu_read_unlock") \o Ev("netif_rx")]

\* what tun_netdev_write returned, as an event
Returned(r) == Ev(IF IsErr(r) THEN "tun_netdev_write<0" ELSE "tun_netdev_write=0")

\* post_decrypt without the release of the peer (l.150)
post_decrypt_NoPeerPut(cc, skb, err) ==
    Ev("kfree_work")
    \o (IF IsErr(err) THEN Ev("kfree_skb")
        ELSE tun_netdev_write(skb).trace \o Returned(tun_netdev_write(skb).ret))
    \o EvA("ovpn_crypto_context_put", cc)

\* l.131-151: post_decrypt
post_decrypt(cc, skb, err) ==
    Ev("kfree_work")
    \o (IF IsErr(err) THEN Ev("kfree_skb")
        ELSE tun_netdev_write(skb).trace \o Returned(tun_netdev_write(skb).ret))
    \o EvA("ovpn_crypto_context_put", cc) \o PeerPut(TRUE)

\* l.153-159: post_decrypt_callback
post_decrypt_callback(cc, skb, err) == Ev("skb") \o post_decrypt(cc, skb, err)

\* ovpn_lookup_peer_via_transport without the test of the source (l.183-184)
ovpn_lookup_peer_via_transport_NoMatch(p, src) ==
    IF ~ovpn_peer_get(p)
    THEN [peer |-> FALSE,
          trace |-> Ev("rcu_read_lock") \o PeerPut(FALSE) \o Ev("rcu_read_unlock")]
    ELSE IF p.bind = NULL
         THEN [peer |-> FALSE,
               trace |-> Ev("rcu_read_lock") \o Ev("ovpn_peer_get")
                         \o PeerPut(TRUE) \o Ev("rcu_read_unlock")]
         ELSE [peer |-> TRUE,
               trace |-> Ev("rcu_read_lock") \o Ev("ovpn_peer_get")
                         \o Ev("rcu_read_unlock")]

\* l.164-193: ovpn_lookup_peer_via_transport; peer is TRUE for the peer,
\* FALSE for NULL
ovpn_lookup_peer_via_transport(p, src) ==
    IF ~ovpn_peer_get(p)
    THEN [peer |-> FALSE,
          trace |-> Ev("rcu_read_lock") \o PeerPut(FALSE) \o Ev("rcu_read_unlock")]
    ELSE IF p.bind = NULL \/ ~ovpn_bind_skb_match(p.bind, src)
         THEN [peer |-> FALSE,
               trace |-> Ev("rcu_read_lock") \o Ev("ovpn_peer_get")
                         \o PeerPut(TRUE) \o Ev("rcu_read_unlock")]
         ELSE [peer |-> TRUE,
               trace |-> Ev("rcu_read_lock") \o Ev("ovpn_peer_get")
                         \o Ev("rcu_read_unlock")]

\* l.195-210: ovpn_transport_to_userspace; fwd is the outcome of the calls
\* it makes: "ok", "linearize" (skb_linearize fails), "send"
\* (ovpn_netlink_send_packet fails)
ovpn_transport_to_userspace(fwd) ==
    IF fwd = "linearize"
    THEN [ret |-> "-ENOMEM", trace |-> Ev("ovpn_transport_to_userspace")]
    ELSE IF fwd = "send"
         THEN [ret |-> "-ENOBUFS", trace |-> Ev("ovpn_transport_to_userspace")]
         ELSE [ret |-> ZERO,
               trace |-> Ev("ovpn_transport_to_userspace")
                         \o Ev("ovpn_netlink_send_packet") \o Ev("consume_skb")]

\* ovpn_transport_to_userspace freeing the skb itself when the send fails
ovpn_recv_crypto_FreeInForward(p, ref, op, skb, fwd, dec, plain) ==
    IF ~ref \/ ~ovpn_opcode_is_data(op)
    THEN LET r == ovpn_transport_to_userspace(fwd) IN
         [deferred |-> FALSE,
          trace |-> Ev("skb") \o r.trace
                    \o (IF IsErr(r.ret) THEN Ev("kfree_skb") ELSE <<>>)
                    \o (IF ref THEN PeerPut(TRUE) ELSE <<>>)
                    \o (IF IsErr(r.ret) THEN Ev("kfree_skb") ELSE <<>>)]
    ELSE IF ~ovpn_crypto_context_from_state(p, ovpn_key_id_extract(op))
         THEN [deferred |-> FALSE,
               trace |-> Ev("skb")
                         \o EvA("ovpn_crypto_context_NULL", ovpn_key_id_extract(op))
                         \o PeerPut(TRUE) \o Ev("kfree_skb")]
         ELSE LET sub == Ev("skb")
                         \o EvA("ovpn_crypto_context_get", ovpn_key_id_extract(op))
                         \o EvA("decrypt", ovpn_key_id_extract(op))
              IN IF dec # EINPROGRESS
                 THEN [deferred |-> FALSE,
                       trace |-> sub \o Ev("skb")
                                 \o post_decrypt(ovpn_key_id_extract(op),
                                                 Decrypted(StatsSaved(skb), plain), dec)]
                 ELSE [deferred |-> TRUE, trace |-> sub]

\* ovpn_recv_crypto giving a packet whose key id has no crypto context to
\* another context of the peer, when it has one (l.242-244)
ovpn_recv_crypto_OtherContext(p, ref, op, skb, fwd, dec, plain) ==
    IF ~ref \/ ~ovpn_opcode_is_data(op)
    THEN LET r == ovpn_transport_to_userspace(fwd) IN
         [deferred |-> FALSE,
          trace |-> Ev("skb") \o r.trace
                    \o (IF ref THEN PeerPut(TRUE) ELSE <<>>)
                    \o (IF IsErr(r.ret) THEN Ev("kfree_skb") ELSE <<>>)]
    ELSE IF p.keys = {}
         THEN [deferred |-> FALSE,
               trace |-> Ev("skb")
                         \o EvA("ovpn_crypto_context_NULL", ovpn_key_id_extract(op))
                         \o PeerPut(TRUE) \o Ev("kfree_skb")]
         ELSE LET key_id == IF ovpn_key_id_extract(op) \in p.keys
                            THEN ovpn_key_id_extract(op)
                            ELSE CHOOSE k \in p.keys : TRUE
                  sub == Ev("skb") \o EvA("ovpn_crypto_context_get", key_id)
                         \o EvA("decrypt", key_id)
              IN IF dec # EINPROGRESS
                 THEN [deferred |-> FALSE,
                       trace |-> sub \o Ev("skb")
                                 \o post_decrypt(key_id,
                                                 Decrypted(StatsSaved(skb), plain), dec)]
                 ELSE [deferred |-> TRUE, trace |-> sub]

\* l.216-257: ovpn_recv_crypto. dec is what cc->ops->decrypt returns; when it
\* is 0 the skb holds the plaintext. deferred: decrypt returned -EINPROGRESS
\* and the callback will run later.
ovpn_recv_crypto(p, ref, op, skb, fwd, dec, plain) ==
    IF ~ref \/ ~ovpn_opcode_is_data(op)
    THEN LET r == ovpn_transport_to_userspace(fwd) IN
         [deferred |-> FALSE,
          trace |-> Ev("skb") \o r.trace
                    \o (IF ref THEN PeerPut(TRUE) ELSE <<>>)
                    \o (IF IsErr(r.ret) THEN Ev("kfree_skb") ELSE <<>>)]
    ELSE IF ~ovpn_crypto_context_from_state(p, ovpn_key_id_extract(op))
         THEN [deferred |-> FALSE,
               trace |-> Ev("skb")
                         \o EvA("ovpn_crypto_context_NULL", ovpn_key_id_extract(op))
                         \o PeerPut(TRUE) \o Ev("kfree_skb")]
         ELSE LET sub == Ev("skb")
                         \o EvA("ovpn_crypto_context_get", ovpn_key_id_extract(op))
                         \o EvA("decrypt", ovpn_key_id_extract(op))
              IN IF dec # EINPROGRESS
                 THEN [deferred |-> FALSE,
                       trace |-> sub \o Ev("skb")
                                 \o post_decrypt(ovpn_key_id_extract(op),
                                                 Decrypted(StatsSaved(skb), plain), dec)]
                 ELSE [deferred |-> TRUE, trace |-> sub]

\* l.281-312: ovpn_udp_encap_recv (with ovpn_recv, l.264-268). hasOvpn: the
\* socket resolves to an engine (ovpn_from_udp_sock).
ovpn_udp_encap_recv(p, hasOvpn, op, src, skb, fwd, dec, plain) ==
    IF ~hasOvpn
    THEN [ret |-> ZERO, deferred |-> FALSE,
          trace |-> Ev("skb") \o Ev("kfree_skb")]
    ELSE LET l == ovpn_lookup_peer_via_transport(p, src)
             r == ovpn_recv_crypto(p, l.peer, op, __skb_pull(skb, sizeof_udphdr),
                                   fwd, dec, plain)
         IN [ret |-> ZERO, deferred |-> r.deferred,
             trace |-> Ev("skb") \o l.trace \o r.trace]

\* l.314-340, l.343-375: ovpn_udp4_output and ovpn_udp6_output; route is the
\* outcome of the route lookup
ovpn_udp4_output(route) ==
    IF route = "ok"
    THEN [ret |-> ZERO, trace |-> Ev("udp_tunnel_xmit_skb")]
    ELSE [ret |-> "-EHOSTUNREACH", trace |-> <<>>]

ovpn_udp6_output(route) ==
    IF route = "ok"
    THEN [ret |-> ZERO, trace |-> Ev("udp_tunnel6_xmit_skb")]
    ELSE [ret |-> "-ENETUNREACH", trace |-> Ev("dst_release")]

\* l.386-412: ovpn_udp_output; family is bind->sapair.local.family
ovpn_udp_output(family, route) ==
    LET r == IF family = "AF_INET" THEN ovpn_udp4_output(route)
             ELSE IF family = "AF_INET6" THEN ovpn_udp6_output(route)
             ELSE [ret |-> "-EOPNOTSUPP", trace |-> <<>>]
    IN [ret |-> r.ret, trace |-> Ev("skb") \o r.trace]

\* ovpn_udp_write freeing the skb on every return (l.446 without the test)
ovpn_udp_write_AlwaysFree(p, out) ==
    IF ~out.sock
    THEN Ev("skb") \o Ev("kfree_skb")
    ELSE IF p.bind = NULL
         THEN Ev("skb") \o Ev("rcu_read_lock") \o Ev("rcu_read_unlock")
              \o Ev("kfree_skb")
         ELSE LET r == ovpn_udp_output(out.family, out.route) IN
              Ev("skb") \o Ev("rcu_read_lock")
              \o Ev("ovpn_peer_update_keepalive_xmit")
              \o r.trace \o Ev("rcu_read_unlock") \o Ev("kfree_skb")

\* l.417-448: ovpn_udp_write. out is what the function finds when it runs:
\* whether peer->sock is set, the family of the binding, the outcome of the
\* route lookup.
ovpn_udp_write_LeakGuard(p, out) ==
    IF ~out.sock
    THEN Ev("skb") \o Ev("kfree_skb")
    ELSE IF p.bind = NULL
         THEN Ev("skb") \o Ev("rcu_read_lock") \o Ev("kfree_skb")
         ELSE LET r == ovpn_udp_output(out.family, out.route) IN
              Ev("skb") \o Ev("rcu_read_lock")
              \o Ev("ovpn_peer_update_keepalive_xmit")
              \o r.trace \o Ev("rcu_read_unlock")
              \o (IF IsErr(r.ret) THEN Ev("kfree_skb") ELSE <<>>)

ovpn_udp_write(p, out) ==
    IF ~out.sock
    THEN Ev("skb") \o Ev("kfree_skb")
    ELSE IF p.bind = NULL
         THEN Ev("skb") \o Ev("rcu_read_lock") \o Ev("rcu_read_unlock")
              \o Ev("kfree_skb")
         ELSE LET r == ovpn_udp_output(out.family, out.route) IN
              Ev("skb") \o Ev("rcu_read_lock")
              \o Ev("ovpn_peer_update_keepalive_xmit")
              \o r.trace \o Ev("rcu_read_unlock")
              \o (IF IsErr(r.ret) THEN Ev("kfree_skb") ELSE <<>>)

\* l.450-475: ovpn_udp_send_data; alloc tells whether alloc_skb gave a buffer
ovpn_udp_send_data(p, alloc, out) ==
    IF ~ovpn_peer_get(p)
    THEN [ret |-> "-EHOSTUNREACH", deferred |-> FALSE, trace |-> <<>>]
    ELSE IF ~alloc
         THEN [ret |-> "-ENOMEM", deferred |-> FALSE,
               trace |-> Ev("ovpn_peer_get") \o PeerPut(TRUE)]
         ELSE [ret |-> ZERO, deferred |-> FALSE,
               trace |-> Ev("ovpn_peer_get") \o Ev("alloc_skb") \o Ev("skb")
                         \o ovpn_udp_write(p, out) \o PeerPut(TRUE)]

\* post_encrypt without the test of the encrypt status (l.485-488)
post_encrypt_IgnoreErr(p, cc, err, out) ==
    Ev("kfree_work")
    \o ovpn_udp_write(p, out)
    \o EvA("ovpn_crypto_context_put", cc) \o PeerPut(TRUE)

\* l.477-497: post_encrypt
post_encrypt(p, cc, err, out) ==
    Ev("kfree_work")
    \o (IF IsErr(err) THEN Ev("kfree_skb") ELSE ovpn_udp_write(p, out))
    \o EvA("ovpn_crypto_context_put", cc) \o PeerPut(TRUE)

\* l.499-513: post_encrypt_callback
post_encrypt_callback(p, cc, err, out) ==
    Ev("skb") \o post_encrypt(p, cc, err, out)

\* do_ovpn_net_xmit returning what encrypt returned (l.563 as return ret)
do_ovpn_net_xmit_ReturnsEncrypt(p, q, enc, out) ==
    IF ~ovpn_peer_get(p)
    THEN [ret |-> "-ENOLINK", deferred |-> FALSE, trace |-> <<>>]
    ELSE IF p.bind = NULL
         THEN [ret |-> "-ENOENT", deferred |-> FALSE,
               trace |-> Ev("ovpn_peer_get") \o Ev("rcu_read_lock")
                         \o Ev("rcu_read_unlock") \o PeerPut(TRUE)]
         ELSE IF ovpn_crypto_context_primary(p) = {}
              THEN [ret |-> "-ENODEV", deferred |-> FALSE,
                    trace |-> Ev("ovpn_peer_get") \o Ev("rcu_read_lock")
                              \o Ev("rcu_read_unlock") \o PeerPut(TRUE)]
              ELSE LET key_id == CHOOSE k \in ovpn_crypto_context_primary(p) : TRUE
                       sub == Ev("ovpn_peer_get") \o Ev("rcu_read_lock")
                              \o EvA("ovpn_crypto_context_get", key_id)
                              \o Ev("rcu_read_unlock") \o Ev("skb")
                              \o EvA("encrypt", key_id)
                   IN IF enc # EINPROGRESS
                      THEN [ret |-> enc, deferred |-> FALSE,
                            trace |-> sub \o Ev("skb")
                                      \o post_encrypt(q, key_id, enc, out)]
                      ELSE [ret |-> ZERO, deferred |-> TRUE, trace |-> sub]

\* l.519-569: do_ovpn_net_xmit. p is the peer as the function finds it under
\* its guard (l.533-551). No guard is held while cc->ops->encrypt runs
\* (l.557), and ovpn_udp_write reads peer->bind again under a guard of its
\* own (l.431-444): q is the peer as it is then. enc is what encrypt returns,
\* out what ovpn_udp_write finds. ret is what the function returns; deferred
\* tells that the encrypt is pending.
do_ovpn_net_xmit(p, q, enc, out) ==
    IF ~ovpn_peer_get(p)
    THEN [ret |-> "-ENOLINK", deferred |-> FALSE, trace |-> <<>>]
    ELSE IF p.bind = NULL
         THEN [ret |-> "-ENOENT", deferred |-> FALSE,
               trace |-> Ev("ovpn_peer_get") \o Ev("rcu_read_lock")
                         \o Ev("rcu_read_unlock") \o PeerPut(TRUE)]
         ELSE IF ovpn_crypto_context_primary(p) = {}
              THEN [ret |-> "-ENODEV", deferred |-> FALSE,
                    trace |-> Ev("ovpn_peer_get") \o Ev("rcu_read_lock")
                              \o Ev("rcu_read_unlock") \o PeerPut(TRUE)]
              ELSE LET key_id == CHOOSE k \in ovpn_crypto_context_primary(p) : TRUE
                       sub == Ev("ovpn_peer_get") \o Ev("rcu_read_lock")
                              \o EvA("ovpn_crypto_context_get", key_id)
                              \o Ev("rcu_read_unlock") \o Ev("skb")
                              \o EvA("encrypt", key_id)
                   IN IF enc # EINPROGRESS
                      THEN [ret |-> ZERO, deferred |-> FALSE,
                            trace |-> sub \o Ev("skb")
                                      \o post_encrypt(q, key_id, enc, out)]
                      ELSE [ret |-> ZERO, deferred |-> TRUE, trace |-> sub]

\* l.573-597: ovpn_net_xmit; data is the plaintext packet of the interface
ovpn_net_xmit(p, q, data, enc, out) ==
    IF IsErr(ovpn_ip_header_probe(data))
    THEN [ret |-> "NET_XMIT_DROP", deferred |-> FALSE,
          trace |-> Ev("skb") \o Ev("skb_tx_error") \o Ev("kfree_skb")]
    ELSE LET r == do_ovpn_net_xmit(p, q, enc, out) IN
         IF IsErr(r.ret)
         THEN [ret |-> "NET_XMIT_DROP", deferred |-> FALSE,
               trace |-> Ev("skb") \o r.trace \o Ev("skb_tx_error")
                         \o Ev("kfree_skb")]
         ELSE [ret |-> "NETDEV_TX_OK", deferred |-> r.deferred,
               trace |-> Ev("skb") \o r.trace]

\* l.603-625: ovpn_xmit_special. hasOvpn: peer->ovpn is set (l.610-612);
\* alloc tells whether alloc_skb gave a buffer (l.614-616). With either
\* missing the function returns having called nothing.
ovpn_xmit_special(p, q, hasOvpn, alloc, enc, out) ==
    IF ~hasOvpn \/ ~alloc
    THEN [ret |-> "void", deferred |-> FALSE, trace |-> <<>>]
    ELSE LET r == do_ovpn_net_xmit(p, q, enc, out) IN
         [ret |-> "void", deferred |-> r.deferred,
          trace |-> Ev("alloc_skb") \o Ev("skb") \o r.trace
                    \o (IF IsErr(r.ret) THEN Ev("kfree_skb") ELSE <<>>)]

\* position of the submission to crypto in trace t, 0 if there is none
RECURSIVE Submitted(_, _)
Submitted(t, n) ==
    IF n > Len(t) THEN 0
    ELSE IF t[n][1] \in {"decrypt", "encrypt"} THEN n
    ELSE Submitted(t, n + 1)

\* the events of trace t up to its submission to crypto, the submission
\* included
ToCrypto(t) == SubSeq(t, 1, Submitted(t, 1))

(***************************************************************************)
(* State of the datapath and its actions.                                  *)
(***************************************************************************)
\* the key ids a peer can have a crypto context for, and those a packet can
\* carry: the key id of a packet is what its sender wrote (l.241), so one
\* more than any peer has is among them
KeyIds == 0..MaxKeyId
PacketKeyIds == 0..(MaxKeyId + 1)
Ops ==
    {ovpn_opcode_compose(OVPN_CONTROL_V1, 0)}
    \cup {ovpn_opcode_compose(o, k) :
            o \in {OVPN_DATA_V1, OVPN_DATA_V2}, k \in PacketKeyIds}
WireLen(plain) == Len(plain) + AeadOverhead
WireLens == {WireLen(d) : d \in Payloads}
BOUND == "bound"

\* no peer: ovpn->peer is NULL and no peer object is alive
NoPeer ==
    [installed |-> FALSE, alive |-> FALSE, refcount |-> 0, bind |-> NULL,
     keys |-> {}, primary |-> {}, ccref |-> [k \in KeyIds |-> 0]]

\* the events that end the ownership of a buffer
Disposals ==
    {"kfree_skb", "consume_skb", "netif_rx", "udp_tunnel_xmit_skb",
     "udp_tunnel6_xmit_skb"}

\* what is kept of the packet handled last: whether its crypto completed in
\* the call or in the callback, the routine it was offered to, whether the
\* post handler found the crypto operation failed (it frees the buffer right
\* after the workspace), and the event that disposed of its buffer; for a
\* packet whose key id had no crypto context, the contexts that the peer p had
Summary(mode, t, p) ==
    LET d == SelectSeq(t, LAMBDA e : e[1] \in Disposals) IN
    [mode |-> mode,
     via |-> IF "decrypt" \in Names(t) THEN "decrypt"
             ELSE IF "encrypt" \in Names(t) THEN "encrypt"
             ELSE IF "ovpn_transport_to_userspace" \in Names(t)
                  THEN "ovpn_transport_to_userspace"
             ELSE IF "ovpn_crypto_context_NULL" \in Names(t)
                  THEN "ovpn_crypto_context_NULL" ELSE "none",
     crypto |-> IF "kfree_work" \notin Names(t) THEN "none"
                ELSE IF \E i \in 1..(Len(t) - 1) :
                           t[i][1] = "kfree_work" /\ t[i + 1][1] = "kfree_skb"
                     THEN "failed" ELSE "done",
     end |-> IF d = <<>> THEN "none" ELSE d[Len(d)][1],
     drop |-> "skb_tx_error" \in Names(t),
     rx |-> LET c == SelectSeq(t, LAMBDA e : e[1] = "ovpn_peer_stats_increment_rx")
            IN IF c = <<>> THEN 0 ELSE c[Len(c)][2],
     guards |-> Count(t, {"rcu_read_lock"}),
     ctx |-> IF "ovpn_crypto_context_NULL" \in Names(t) THEN p.keys ELSE {}]

NoPacket == [mode |-> "sync", via |-> "none", crypto |-> "none", end |-> "none",
             drop |-> FALSE, rx |-> 0, guards |-> 0, ctx |-> {}]

\* peer.h: the references taken and released by a trace, applied to the
\* peer; the peer is released when its count reaches zero
ApplyRefs(p, t) ==
    LET rc == p.refcount + Count(t, {"ovpn_peer_get"}) - Count(t, {"ovpn_peer_put"})
        cr == [k \in KeyIds |->
                 p.ccref[k]
                 + Len(SelectSeq(t, LAMBDA e : e = <<"ovpn_crypto_context_get", k>>))
                 - Len(SelectSeq(t, LAMBDA e : e = <<"ovpn_crypto_context_put", k>>))]
    IN IF ~p.alive THEN p
       ELSE IF rc <= 0 THEN NoPeer
       ELSE [p EXCEPT !.refcount = rc, !.ccref = cr]

\* the packets that are with the crypto engine: a bag of struct ovpn_work.
\* Whether the engine defers is its own choice, made while it runs: the
\* outcome of a work comes with the return of decrypt or encrypt to the call
\* that made it, or, that call having returned on -EINPROGRESS, with the
\* callback
Works == BagToSet(pending)
Queued(w) == pending (+) SetToBag({w})
Unqueued(w) == pending (-) SetToBag({w})
CanDefer == BagCardinality(pending) < MaxSkb

\* control plane: a peer is installed with its binding and keys
InstallPeer ==
    /\ ~peer.alive
    /\ \E bind \in {NULL, BOUND}, keys \in SUBSET KeyIds :
       \E primary \in {{}} \cup {{k} : k \in keys} :
          peer' = [installed |-> TRUE, alive |-> TRUE, refcount |-> 1,
                   bind |-> bind, keys |-> keys, primary |-> primary,
                   ccref |-> [k \in KeyIds |-> IF k \in keys THEN 1 ELSE 0]]
    /\ UNCHANGED <<pending, last, pktidVars, smpVars>>

\* control plane: the peer is removed from the engine; it is released once
\* the last reference is gone
RemovePeer ==
    /\ peer.installed
    /\ peer' = ApplyRefs([peer EXCEPT !.installed = FALSE], Ev("ovpn_peer_put"))
    /\ UNCHANGED <<pending, last, pktidVars, smpVars>>

\* the peer p without its binding
Unbound(p) == [p EXCEPT !.bind = NULL]

\* control plane: the peer loses its binding
Unbind ==
    /\ peer.installed /\ peer.bind # NULL
    /\ peer' = Unbound(peer)
    /\ UNCHANGED <<pending, last, pktidVars, smpVars>>

\* the inputs of a call of ovpn_udp_encap_recv on a socket with an engine.
\* The outcome of a call it makes (forwarding, decrypt) is drawn only where
\* the call is made, and the size only where it is used. after: what decrypt
\* gives is drawn too; without it, only whether decrypt defers.
RxOutcomes(p, op, src, after) ==
    LET found == ovpn_lookup_peer_via_transport(p, src).peer
        toCrypto == /\ found /\ ovpn_opcode_is_data(op)
                    /\ ovpn_crypto_context_from_state(p, ovpn_key_id_extract(op))
        toUser == ~(found /\ ovpn_opcode_is_data(op))
    IN UNION {
         {[hasOvpn |-> TRUE, op |-> op, src |-> src, wlen |-> wlen,
           fwd |-> fwd, dec |-> dec, plain |-> plain] :
             plain \in (IF toCrypto /\ dec = ZERO /\ after
                        THEN {d \in Payloads : WireLen(d) = wlen} ELSE {<<>>})} :
         wlen \in (IF toCrypto THEN WireLens ELSE {WireLen(KeepaliveMessage)}),
         fwd \in (IF toUser THEN {"ok", "linearize", "send"} ELSE {"ok"}),
         dec \in (IF ~toCrypto THEN {ZERO}
                  ELSE IF after THEN {ZERO, "-EBADMSG", EINPROGRESS}
                  ELSE {ZERO, EINPROGRESS}) }

RxInputs(p, after) ==
    {[hasOvpn |-> FALSE, op |-> ovpn_opcode_compose(OVPN_DATA_V2, 0),
      src |-> PeerAddr, wlen |-> WireLen(KeepaliveMessage), fwd |-> "ok",
      dec |-> ZERO, plain |-> <<>>]}
    \cup UNION {RxOutcomes(p, op, src, after) : op \in Ops, src \in {PeerAddr, "B"}}

\* one call of ovpn_udp_encap_recv on input i, with what held when it began.
\* The call reads the peer before it submits the packet (l.172-186, l.242)
\* and not after, so the steps of other CPUs change none of its calls.
RxCall(p, i) ==
    LET r == ovpn_udp_encap_recv(p, i.hasOvpn, i.op, i.src,
                                 [len |-> sizeof_udphdr + i.wlen, rx_stats_size |-> 0],
                                 i.fwd, i.dec, i.plain)
    IN [in |-> i,
        isData |-> ovpn_opcode_is_data(i.op),
        peerMatch |-> p.installed /\ p.bind # NULL /\ i.src = PeerAddr,
        hasKey |-> ovpn_key_id_extract(i.op) \in p.keys,
        deferred |-> r.deferred, ret |-> r.ret, trace |-> r.trace]

\* the work of a packet given to decrypt (l.247), with the calls made so far
RxWork(i, c) ==
    [dir |-> "rx", entry |-> "rx",
     cc |-> ovpn_key_id_extract(i.op), len |-> i.wlen,
     trace |-> ToCrypto(c.trace)]

\* a UDP packet arrives: ovpn_udp_encap_recv runs to its return, or to the
\* call of decrypt (l.247), which it makes with no guard held (the guard of
\* the lookup is released at l.186): the steps of other CPUs can fall
\* before decrypt is over
UdpEncapRecv ==
    \E i \in RxInputs(peer, FALSE) :
       LET c == RxCall(peer, i) IN
       /\ IF Submitted(c.trace, 1) = 0
          THEN /\ peer' = ApplyRefs(peer, c.trace)
               /\ pending' = pending
               /\ last' = Summary("sync", c.trace, peer)
          ELSE /\ CanDefer
               /\ peer' = ApplyRefs(peer, ToCrypto(c.trace))
               /\ pending' = Queued(RxWork(i, c))
               /\ last' = last
       /\ UNCHANGED <<pktidVars, smpVars>>

\* how the decrypt of work w can end
RxCompletions(w) ==
    {[err |-> ZERO, plain |-> d] : d \in {d \in Payloads : WireLen(d) = w.len}}
    \cup {[err |-> "-EBADMSG", plain |-> <<>>]}

\* the skb of work w after a decrypt that ended as c
RxSkb(w, c) ==
    Decrypted(StatsSaved([len |-> w.len, rx_stats_size |-> 0]), c.plain)

\* l.248-251: the events of ovpn_recv_crypto once decrypt has returned c.err
RxReturn(w, c) == Ev("skb") \o post_decrypt(w.cc, RxSkb(w, c), c.err)

\* the events of the callback of a deferred decrypt
RxCallback(w, c) == post_decrypt_callback(w.cc, RxSkb(w, c), c.err)

\* the events that follow the decrypt of work w
RxTail(mode, w, c) ==
    IF mode = "sync" THEN RxReturn(w, c) ELSE RxCallback(w, c)

\* the decrypt of a work ends as one of its completions
RxComplete(mode) ==
    \E w \in Works :
       /\ w.dir = "rx"
       /\ \E c \in RxCompletions(w) :
          /\ peer' = ApplyRefs(peer, RxTail(mode, w, c))
          /\ last' = Summary(mode, w.trace \o RxTail(mode, w, c), peer)
       /\ pending' = Unqueued(w)
       /\ UNCHANGED <<pktidVars, smpVars>>

\* decrypt returns to ovpn_recv_crypto, which runs to its return (l.248-251)
DecryptReturns == RxComplete("sync")

\* decrypt returned -EINPROGRESS, ovpn_recv_crypto returned, and the crypto
\* engine completes the decrypt
PostDecryptCallback == RxComplete("deferred")

\* what ovpn_udp_write can find when it runs: the socket, the family of the
\* binding, the outcome of the route lookup
Outs(go) ==
    IF ~go THEN {[sock |-> TRUE, family |-> "AF_INET", route |-> "ok"]}
    ELSE {[sock |-> FALSE, family |-> "AF_INET", route |-> "ok"],
          [sock |-> TRUE, family |-> "AF_UNSPEC", route |-> "ok"]}
         \cup {[sock |-> TRUE, family |-> f, route |-> r] :
                 f \in {"AF_INET", "AF_INET6"}, r \in {"ok", "noroute"}}

\* what a TX call meets from its call of encrypt on, drawn only where the
\* call is made: what encrypt returns, what ovpn_udp_write finds, and
\* whether another CPU takes the binding of the peer away while encrypt
\* runs (ovpn_udp_write then reads the socket and the binding, no more).
\* after: all of it is drawn; without it, only whether encrypt defers.
Encrypts(go, after) ==
    IF ~go THEN {[enc |-> ZERO, out |-> o, unbind |-> FALSE] : o \in Outs(FALSE)}
    ELSE {[enc |-> ZERO, out |-> o, unbind |-> FALSE] : o \in Outs(after)}
         \cup {[enc |-> ZERO, out |-> o, unbind |-> after] : o \in Outs(FALSE)}
         \cup {[enc |-> e, out |-> o, unbind |-> FALSE] :
                 e \in (IF after THEN {"-ERANGE", EINPROGRESS} ELSE {EINPROGRESS}),
                 o \in Outs(FALSE)}

\* the inputs of a call of a TX entry: ovpn_net_xmit with the packet of the
\* interface, ovpn_xmit_special by a caller that holds the peer, and
\* ovpn_udp_send_data
TxInputs(p, entry, after) ==
    LET toCrypto == p.installed /\ p.bind # NULL /\ p.primary # {}
    IN IF entry = "xmit"
       THEN UNION {
              {[entry |-> entry, data |-> data, enc |-> k.enc, out |-> k.out,
                unbind |-> k.unbind, alloc |-> TRUE, hasOvpn |-> TRUE] :
                  k \in Encrypts(toCrypto /\ ~IsErr(ovpn_ip_header_probe(data)),
                                 after)} :
              data \in Payloads }
       ELSE IF entry = "special"
       THEN IF ~p.alive THEN {}
            ELSE UNION { UNION {
                   {[entry |-> entry, data |-> KeepaliveMessage, enc |-> k.enc,
                     out |-> k.out, unbind |-> k.unbind, alloc |-> alloc,
                     hasOvpn |-> hasOvpn] :
                       k \in Encrypts(toCrypto /\ hasOvpn /\ alloc, after)} :
                   alloc \in (IF hasOvpn THEN BOOLEAN ELSE {TRUE}) } :
                   hasOvpn \in BOOLEAN }
       ELSE UNION {
              {[entry |-> entry, data |-> <<>>, enc |-> ZERO, out |-> out,
                unbind |-> FALSE, alloc |-> alloc, hasOvpn |-> TRUE] :
                  out \in Outs(p.installed /\ alloc)} :
              alloc \in BOOLEAN }

\* one call of a TX entry on input i, the peer being p when it begins
TxCall(p, i) ==
    LET q == IF i.unbind THEN Unbound(p) ELSE p
        r == IF i.entry = "xmit" THEN ovpn_net_xmit(p, q, i.data, i.enc, i.out)
             ELSE IF i.entry = "special"
                  THEN ovpn_xmit_special(p, q, i.hasOvpn, i.alloc, i.enc, i.out)
             ELSE ovpn_udp_send_data(p, i.alloc, i.out)
    IN [in |-> i, entry |-> i.entry,
        probeOk |-> ~IsErr(ovpn_ip_header_probe(i.data)),
        peerInstalled |-> p.installed, bound |-> p.bind # NULL,
        hasPrimary |-> p.primary # {},
        deferred |-> r.deferred, ret |-> r.ret, trace |-> r.trace]

\* the work of a packet given to encrypt (l.557), with the calls made so far
TxWork(p, i, c) ==
    [dir |-> "tx", entry |-> i.entry,
     cc |-> CHOOSE k \in p.primary : TRUE,
     len |-> 0, trace |-> ToCrypto(c.trace)]

\* a call of a TX entry: it runs to its return, or to the call of encrypt
\* (l.557), which it makes with no guard held (the guard is released at
\* l.551): the steps of other CPUs can fall before encrypt is over
TxStep(entry) ==
    \E i \in TxInputs(peer, entry, FALSE) :
       LET c == TxCall(peer, i) IN
       /\ IF Submitted(c.trace, 1) = 0
          THEN /\ peer' = ApplyRefs(peer, c.trace)
               /\ pending' = pending
               /\ last' = Summary("sync", c.trace, peer)
          ELSE /\ CanDefer
               /\ peer' = ApplyRefs(peer, ToCrypto(c.trace))
               /\ pending' = Queued(TxWork(peer, i, c))
               /\ last' = last
       /\ UNCHANGED <<pktidVars, smpVars>>

\* the host stack transmits a packet on the interface: ovpn_net_xmit
NetXmit == TxStep("xmit")

\* a special message (keepalive, explicit-exit-notify) is sent for the peer,
\* whose reference the caller holds: ovpn_xmit_special
XmitSpecial == TxStep("special")

\* the control plane sends a packet of its own in clear: ovpn_udp_send_data
UdpSendData == TxStep("send_data")

\* how an encrypt can end
TxCompletions ==
    {[err |-> ZERO, out |-> o] : o \in Outs(TRUE)}
    \cup {[err |-> "-ERANGE", out |-> o] : o \in Outs(FALSE)}

\* l.559-563: the events of do_ovpn_net_xmit once encrypt has returned
\* c.err, the peer being p by then; it returns 0 and its callers add nothing
\* (l.591-592, l.623-624)
TxReturn(p, w, c) == Ev("skb") \o post_encrypt(p, w.cc, c.err, c.out)

\* the events of the callback of a deferred encrypt, the peer being p
TxCallback(p, w, c) == post_encrypt_callback(p, w.cc, c.err, c.out)

\* the events that follow the encrypt of work w, the peer being p
TxTail(mode, p, w, c) ==
    IF mode = "sync" THEN TxReturn(p, w, c) ELSE TxCallback(p, w, c)

\* the encrypt of a work ends as one of TxCompletions
TxComplete(mode) ==
    \E w \in Works :
       /\ w.dir = "tx"
       /\ \E c \in TxCompletions :
          /\ peer' = ApplyRefs(peer, TxTail(mode, peer, w, c))
          /\ last' = Summary(mode, w.trace \o TxTail(mode, peer, w, c), peer)
       /\ pending' = Unqueued(w)
       /\ UNCHANGED <<pktidVars, smpVars>>

\* encrypt returns to do_ovpn_net_xmit, which runs to the return of its
\* caller (l.559-563)
EncryptReturns == TxComplete("sync")

\* encrypt returned -EINPROGRESS, the TX entry returned, and the crypto
\* engine completes the encrypt
PostEncryptCallback == TxComplete("deferred")

(***************************************************************************)
(* The CPUs that run the pktid operations at the same time.                *)
(***************************************************************************)
Threads == 1..MaxThreads
NoThread == 0
NoRes == [ret |-> NoCall, id |-> 0]
Idle == [pc |-> "idle", arg |-> <<0, 0>>, res |-> NoRes]

\* pktid.c l.17-21: atomic64_set(&pid->seq_num, 0)
ovpn_pktid_xmit_init == 0

SmpIdle ==
    /\ thr = [t \in Threads |-> Idle]
    /\ lock = NoThread
    /\ seq_num = ovpn_pktid_xmit_init
    /\ issued = <<>>
    /\ seqpr = ovpn_pktid_recv_init

DpInit ==
    /\ peer = NoPeer
    /\ pending = EmptyBag
    /\ last = NoPacket

PktidIdle ==
    /\ pr = ovpn_pktid_recv_init
    /\ now = 0
    /\ probe = <<0, 0>>
    /\ hits = 0
    /\ ret = NoCall

InitDatapath == DpInit /\ PktidIdle /\ SmpIdle

NextDatapath ==
    \/ InstallPeer
    \/ RemovePeer
    \/ Unbind
    \/ UdpEncapRecv
    \/ DecryptReturns
    \/ PostDecryptCallback
    \/ NetXmit
    \/ XmitSpecial
    \/ UdpSendData
    \/ EncryptReturns
    \/ PostEncryptCallback

SpecDatapath == InitDatapath /\ [][NextDatapath]_vars

(***************************************************************************)
(* The replay detector as a state machine.                                 *)
(***************************************************************************)
\* l.118-130: ovpn_pktid_recv, one critical section of pr->lock, as built
\* with ENABLE_REPLAY_PROTECTION (l.120-126). The macro is defined outside
\* src; built without it the function returns 0 for every call (l.127-128)
\* and there is no replay detector to state anything about.
ovpn_pktid_recv(pkt_id, pkt_time) ==
    LET r == __ovpn_pktid_recv(pr, pkt_id, pkt_time, now)
        isProbe == <<pkt_id, pkt_time>> = probe
    IN /\ pr' = r.pr
       /\ ret' = IF isProbe THEN r.ret ELSE NoCall
       /\ hits' = IF isProbe /\ r.ret = OK /\ hits < 2 THEN hits + 1 ELSE hits
       /\ UNCHANGED <<now, probe, dpVars, smpVars>>

\* jiffies advances
Tick ==
    /\ now < MaxNow
    /\ now' = now + 1
    /\ UNCHANGED <<pr, probe, hits, ret, dpVars, smpVars>>

Packets == (0..MaxId) \X (0..MaxEpoch)

Init ==
    /\ pr = ovpn_pktid_recv_init
    /\ now = 0
    /\ probe \in Packets
    /\ hits = 0
    /\ ret = NoCall
    /\ DpInit
    /\ SmpIdle

Recv == \E pkt_id \in 0..MaxId, pkt_time \in 0..MaxEpoch :
            ovpn_pktid_recv(pkt_id, pkt_time)

Next == Recv \/ Tick

Spec == Init /\ [][Next]_vars

(***************************************************************************)
(* The transmit counter. next() is one atomic read-modify-write of         *)
(* seq_num: it fails when the packet id would reach XmitLimit (0xFFFFFFFF  *)
(* in the program), else it adds one and hands out the low bits of the new *)
(* value. Several CPUs call it; a call returns after its atomic step, and  *)
(* the returns can come in any order.                                      *)
(***************************************************************************)
REKEY_NEEDED == "REKEY_NEEDED"

ovpn_pktid_xmit_next_NoStore(seq) ==
    IF seq + 1 >= XmitLimit
    THEN [seq_num |-> seq, ret |-> REKEY_NEEDED, id |-> 0]
    ELSE [seq_num |-> seq, ret |-> OK, id |-> (seq + 1) % (XmitLimit + 1)]

ovpn_pktid_xmit_next(seq) ==
    IF seq + 1 >= XmitLimit
    THEN [seq_num |-> seq, ret |-> REKEY_NEEDED, id |-> 0]
    ELSE [seq_num |-> seq + 1, ret |-> OK, id |-> (seq + 1) % (XmitLimit + 1)]

InFlightCalls == {t \in Threads : thr[t].pc # "idle"}

XmitNext(t) ==
    /\ thr[t].pc = "idle"
    /\ Len(issued) + Cardinality(InFlightCalls) < MaxCalls
    /\ LET r == ovpn_pktid_xmit_next(seq_num)
       IN /\ seq_num' = r.seq_num
          /\ thr' = [thr EXCEPT ![t] = [pc |-> "next", arg |-> <<0, 0>>,
                                        res |-> [ret |-> r.ret, id |-> r.id]]]
    /\ UNCHANGED <<issued, lock, seqpr, pktidVars, dpVars>>

XmitReturn(t) ==
    /\ thr[t].pc = "next"
    /\ issued' = Append(issued, [cpu |-> t, ret |-> thr[t].res.ret, id |-> thr[t].res.id])
    /\ thr' = [thr EXCEPT ![t] = Idle]
    /\ UNCHANGED <<seq_num, lock, seqpr, pktidVars, dpVars>>

InitXmit == DpInit /\ PktidIdle /\ SmpIdle

NextXmit == \E t \in Threads : XmitNext(t) \/ XmitReturn(t)

SpecXmit == InitXmit /\ [][NextXmit]_vars

(***************************************************************************)
(* ovpn_pktid_recv on several CPUs: l.118-130 with the lock. A call takes  *)
(* the spinlock, runs __ovpn_pktid_recv, which reads *pr and jiffies and   *)
(* then writes *pr, releases the lock and returns. seqpr follows the same  *)
(* calls made one after the other, in the order in which they read *pr.    *)
(***************************************************************************)
RacePackets == (0..MaxRaceId) \X (0..MaxEpoch)

\* l.123 left out: the call enters without the lock
spin_lock_Missing(l, t) == [can |-> TRUE, lock |-> l]

\* l.123: spin_lock(&pr->lock) by CPU t, the lock being held by l; can: whether
\* it gets past, lock: the holder then
spin_lock(l, t) == [can |-> l = NoThread, lock |-> t]

\* l.125: spin_unlock(&pr->lock)
spin_unlock == NoThread

\* CPU t calls ovpn_pktid_recv(pr, pkt_id, pkt_time)
RecvCall(t) ==
    /\ thr[t].pc = "idle"
    /\ \E a \in RacePackets :
          thr' = [thr EXCEPT ![t] = [pc |-> "spin_lock", arg |-> a, res |-> NoRes]]
    /\ UNCHANGED <<lock, seq_num, issued, seqpr, pktidVars, dpVars>>

RecvLock(t) ==
    /\ thr[t].pc = "spin_lock"
    /\ spin_lock(lock, t).can
    /\ lock' = spin_lock(lock, t).lock
    /\ thr' = [thr EXCEPT ![t].pc = "locked"]
    /\ UNCHANGED <<seq_num, issued, seqpr, pktidVars, dpVars>>

\* __ovpn_pktid_recv reads jiffies and *pr and decides
RecvRead(t) ==
    /\ thr[t].pc = "locked"
    /\ LET r == __ovpn_pktid_recv(pr, thr[t].arg[1], thr[t].arg[2], now)
           q == __ovpn_pktid_recv(seqpr, thr[t].arg[1], thr[t].arg[2], now)
       IN /\ thr' = [thr EXCEPT ![t] = [pc |-> "decided", arg |-> @.arg,
                                        res |-> [ret |-> r.ret, pr |-> r.pr,
                                                 seq |-> q.ret]]]
          /\ seqpr' = q.pr
    /\ UNCHANGED <<lock, seq_num, issued, pktidVars, dpVars>>

\* __ovpn_pktid_recv writes *pr
RecvWrite(t) ==
    /\ thr[t].pc = "decided"
    /\ pr' = thr[t].res.pr
    /\ thr' = [thr EXCEPT ![t].pc = "written"]
    /\ UNCHANGED <<lock, seq_num, issued, seqpr, now, probe, hits, ret, dpVars>>

RecvUnlock(t) ==
    /\ thr[t].pc = "written"
    /\ lock' = spin_unlock
    /\ thr' = [thr EXCEPT ![t].pc = "done"]
    /\ UNCHANGED <<seq_num, issued, seqpr, pktidVars, dpVars>>

RecvTick ==
    /\ now < MaxNow
    /\ now' = now + 1
    /\ UNCHANGED <<pr, probe, hits, ret, dpVars, smpVars>>

InitRecvSmp == DpInit /\ PktidIdle /\ SmpIdle

NextRecvSmp ==
    \/ \E t \in Threads :
          RecvCall(t) \/ RecvLock(t) \/ RecvRead(t) \/ RecvWrite(t) \/ RecvUnlock(t)
    \/ RecvTick

SpecRecvSmp == InitRecvSmp /\ [][NextRecvSmp]_vars

(***************************************************************************)
(* Properties of the replay detector.                                      *)
(***************************************************************************)
\* the result of presenting the probe in the current state
ProbeCall == __ovpn_pktid_recv(pr, probe[1], probe[2], now)

\* result of presenting <<pkt_id, pkt_time>> in the current state
Call(pkt_id, pkt_time) == __ovpn_pktid_recv(pr, pkt_id, pkt_time, now)

\* the floor in force during a call made now (after the update of l.40-41)
FloorNow == IF now >= pr.expire THEN pr.id ELSE pr.id_floor

\* the positions k of [0, extent) whose bit is set
WindowBits == {k \in 0..(pr.extent - 1) : REPLAY_INDEX(pr.base, k) \in pr.history}

Min(a, b) == IF a < b THEN a ELSE b

\* C1: no pair (packet id, epoch) is accepted (return 0) more than once,
\* whatever the calls made and the time passed between them.
C1_NoDoubleAccept == hits <= 1

\* the probe was accepted once, and its latest presentation was rejected
C1_Witness == hits = 1 /\ ret \notin {OK, NoCall}

\* C2: an id of the current epoch that is above the floor and within
\* W - 1 of the highest id (or above it) is accepted if it was never accepted
\* before, and rejected with REPLAY if it was.
C2_WindowAccept ==
    (/\ probe[2] = pr.time
     /\ probe[1] >= 1
     /\ probe[1] > FloorNow
     /\ probe[1] > pr.id - W)
    => ProbeCall.ret = (IF hits = 0 THEN OK ELSE ERR_REPLAY)

\* an id below the highest one, inside the window and above the floor, had
\* been accepted once, and its next presentation, a backtrack no larger than
\* max_backtrack, was rejected with REPLAY
C2_Witness ==
    /\ ret = ERR_REPLAY /\ hits = 1
    /\ probe[2] = pr.time /\ probe[1] < pr.id /\ probe[1] > pr.id - W
    /\ probe[1] > pr.id_floor
    /\ pr.max_backtrack >= pr.id - probe[1]

\* C3 as stated: every id below current_id - W + 1, presented at the current
\* epoch, is rejected with ID-BACKTRACK.
C3_Original ==
    \A pkt_id \in 0..MaxId :
        pkt_id < pr.id - W + 1 => Call(pkt_id, pr.time).ret = ERR_ID_BACKTRACK

\* C3 amended: every id >= 1 below current_id - W + 1, presented at the
\* current epoch, is rejected with ID-BACKTRACK whatever history, extent and
\* id_floor hold.
C3_OutOfWindow ==
    \A pkt_id \in 1..MaxId :
        pkt_id < pr.id - W + 1 => Call(pkt_id, pr.time).ret = ERR_ID_BACKTRACK

\* an id >= 1 just below the window was presented and rejected with ID-BACKTRACK
C3_Witness ==
    /\ ret = ERR_ID_BACKTRACK
    /\ probe[2] = pr.time /\ probe[1] >= 1 /\ probe[1] = pr.id - W

\* C4: (id >= 1, epoch' > epoch) is accepted on a window reset to epoch':
\* afterwards id is the presented id, the floor is 0 and the window holds
\* this id alone; an id never accepted in the current epoch is never
\* rejected as a replay; (id >= 1, epoch' < epoch) is rejected with
\* EPOCH-BACKTRACK.
C4_EpochReset ==
    /\ \A pkt_id \in 1..MaxId, pkt_time \in 0..MaxEpoch :
         LET r == Call(pkt_id, pkt_time) IN
         /\ pkt_time > pr.time =>
               /\ r.ret = OK
               /\ r.pr.id = pkt_id /\ r.pr.time = pkt_time /\ r.pr.id_floor = 0
               /\ r.pr.extent = Min(pkt_id, W)
               /\ REPLAY_INDEX(r.pr.base, 0) \in r.pr.history
               /\ \A k \in 1..(r.pr.extent - 1) :
                     REPLAY_INDEX(r.pr.base, k) \notin r.pr.history
         /\ pkt_time < pr.time => r.ret = ERR_TIME_BACKTRACK /\ r.pr.time = pr.time
    /\ (probe[2] = pr.time /\ hits = 0) => ProbeCall.ret # ERR_REPLAY

\* the probe was accepted at a new epoch while bits of the old epoch are
\* still in the bitmap, outside the window
C4_Witness ==
    /\ ret = OK /\ hits = 1
    /\ pr.time > 0 /\ probe = <<pr.id, pr.time>>
    /\ WindowBits = {0}
    /\ Cardinality(pr.history) > 1

\* C5: an id >= 1 above every id seen in its epoch (a new epoch, or the
\* stored epoch and an id above the highest one) is accepted and becomes the
\* highest id, whatever the gap.
C5_MonotoneAccept ==
    \A pkt_id \in 1..MaxId, pkt_time \in 0..MaxEpoch :
        (pkt_time > pr.time \/ (pkt_time = pr.time /\ pkt_id > pr.id)) =>
            LET r == Call(pkt_id, pkt_time) IN r.ret = OK /\ r.pr.id = pkt_id

\* the probe was accepted after a forward jump of W or more within the
\* first epoch
C5_Witness ==
    /\ ret = OK /\ hits = 1
    /\ pr.time = 0 /\ probe = <<pr.id, 0>>
    /\ pr.id > W /\ pr.base = 0 /\ pr.history = {0} /\ pr.extent = W

\* C6: id 0 is rejected at every epoch, and the call changes nothing of the
\* window but the floor.
C6_ZeroId ==
    \A pkt_time \in 0..MaxEpoch :
        LET r == Call(0, pkt_time) IN
        /\ r.ret = ERR_ID_ZERO
        /\ r.pr = [pr EXCEPT !.id_floor = r.pr.id_floor]

\* (0, epoch') with epoch' above the stored epoch was rejected on a window
\* that holds ids
C6_Witness ==
    /\ ret = ERR_ID_ZERO
    /\ probe[1] = 0 /\ probe[2] > pr.time /\ pr.extent > 0 /\ pr.id > 0

(***************************************************************************)
(* The datapath: what holds of every packet the handlers can be given.     *)
(***************************************************************************)

\* every call of the RX entry that can be made in this state
RxCalls == {RxCall(peer, i) : i \in RxInputs(peer, TRUE)}

\* every call of a TX entry that can be made in this state
TxCalls ==
    UNION {{TxCall(peer, i) : i \in TxInputs(peer, e, TRUE)} :
             e \in {"xmit", "special", "send_data"}}

\* every way the handling of an RX packet that is in decrypt can end in this
\* state, with the rest of its call or with the callback. ok: the decrypt
\* succeeded, plain: what it gave, wlen: the size on arrival.
RxCompleted ==
    UNION {{[ok |-> k.err = ZERO, plain |-> k.plain, wlen |-> w.len,
             trace |-> w.trace \o RxTail(m, w, k)] :
               k \in RxCompletions(w), m \in {"sync", "deferred"}} :
           w \in {w \in Works : w.dir = "rx"}}

\* every way the handling of an RX packet can end in this state: a call whose
\* decrypt is not deferred, or one of RxCompleted
RxFinished ==
    {[ok |-> c.in.dec = ZERO /\ "decrypt" \in Names(c.trace),
      plain |-> c.in.plain, wlen |-> c.in.wlen, trace |-> c.trace] :
        c \in {c \in RxCalls : ~c.deferred}}
    \cup RxCompleted

\* every way the handling of a TX packet that is in encrypt can end in this
\* state, the peer being as it is now
TxCompleted ==
    UNION {{[entry |-> w.entry, ok |-> k.err = ZERO,
             trace |-> w.trace \o TxTail(m, peer, w, k)] :
               k \in TxCompletions, m \in {"sync", "deferred"}} :
           w \in {w \in Works : w.dir = "tx"}}

\* every way the handling of a TX packet can end in this state: a call whose
\* encrypt is not deferred, the binding lost while it ran or not, or one of
\* TxCompleted
TxFinished ==
    {[entry |-> c.entry, ok |-> c.in.enc = ZERO /\ "encrypt" \in Names(c.trace),
      trace |-> c.trace] :
        c \in {c \in TxCalls : ~c.deferred}}
    \cup TxCompleted

Forwarded(t) == "ovpn_netlink_send_packet" \in Names(t)
Freed(t) == "kfree_skb" \in Names(t)

\* C7 as stated: a packet is offered to decrypt only if its opcode is a data
\* opcode and an installed peer's binding matches its source, and every other
\* packet is forwarded to the control plane and not offered to decrypt
C7_Original ==
    \A c \in RxCalls :
       /\ "decrypt" \in Names(c.trace) => c.isData /\ c.peerMatch
       /\ ~(c.isData /\ c.peerMatch) =>
             Forwarded(c.trace) /\ "decrypt" \notin Names(c.trace)

\* C7: a packet is offered to decrypt only if its opcode is a data opcode and
\* an installed peer's binding matches its source. Every other packet is not
\* offered to decrypt; on a socket with an engine it is handed to the
\* forwarding routine, and it reaches the control plane exactly when
\* linearising it and the netlink send succeed, else it is freed; on a socket
\* with no engine it is freed without being forwarded.
C7_Dispatch ==
    \A c \in RxCalls :
       /\ "decrypt" \in Names(c.trace) => c.isData /\ c.peerMatch
       /\ ~(c.isData /\ c.peerMatch) =>
             /\ "decrypt" \notin Names(c.trace)
             /\ c.in.hasOvpn => "ovpn_transport_to_userspace" \in Names(c.trace)
             /\ Forwarded(c.trace) <=> c.in.hasOvpn /\ c.in.fwd = "ok"
             /\ Forwarded(c.trace) => Count(c.trace, Disposals) = 1 /\ ~Freed(c.trace)
             /\ ~Forwarded(c.trace) => Freed(c.trace)

\* a packet was forwarded to the control plane while no peer is installed
C7_Witness ==
    /\ last.via = "ovpn_transport_to_userspace"
    /\ last.end = "consume_skb"
    /\ ~peer.installed

\* the buffer of trace t was disposed of once and not touched afterwards
OwnedOnce(t) ==
    /\ Count(t, Disposals) = 1
    /\ \A i \in 1..Len(t) : t[i][1] \in Disposals =>
          \A j \in (i + 1)..Len(t) : t[j][1] # "skb"

\* the buffer of trace t is with the crypto engine: not disposed of, and not
\* touched since it was submitted
InFlight(t) ==
    /\ Count(t, Disposals) = 0
    /\ t # <<>> /\ t[Len(t)][1] \in {"decrypt", "encrypt"}

\* the trace t of a TX entry has a buffer: the one ovpn_net_xmit is given,
\* or the one ovpn_xmit_special got from alloc_skb
HasBuffer(entry, t) ==
    \/ entry = "xmit"
    \/ entry = "special" /\ "alloc_skb" \in Names(t)

\* C8: the buffer of every packet that entered ovpn_udp_encap_recv,
\* ovpn_net_xmit or ovpn_xmit_special is disposed of exactly once when its
\* handling ends (netif_rx, udp_tunnel_xmit_skb, consume_skb or kfree_skb), in
\* the call or in the callback, whatever other CPUs did to the peer while the
\* packet was in crypto, is not touched after that, and is neither disposed
\* of nor touched while the crypto operation runs; a call of
\* ovpn_xmit_special that gets no buffer disposes of none
C8_BufferOwnership ==
    /\ \A f \in RxFinished : OwnedOnce(f.trace)
    /\ \A f \in TxFinished :
          /\ HasBuffer(f.entry, f.trace) => OwnedOnce(f.trace)
          /\ f.entry = "special" /\ ~HasBuffer(f.entry, f.trace) =>
                Count(f.trace, Disposals \cup {"skb"}) = 0
    /\ \A c \in RxCalls \cup TxCalls : c.deferred => InFlight(c.trace)
    /\ \A w \in Works : InFlight(w.trace)

\* a packet whose encrypt was deferred was handed to the UDP socket
C8_Witness ==
    /\ last.mode = "deferred"
    /\ last.via = "encrypt"
    /\ last.end = "udp_tunnel6_xmit_skb"

Gets(t) == Count(t, {"ovpn_peer_get", "ovpn_crypto_context_get"})
Puts(t) == Count(t, {"ovpn_peer_put", "ovpn_crypto_context_put"})

\* the references of trace t before the submission at position n: one on the
\* peer and one on the context of the key submitted, none released
Acquired(t, n) ==
    LET before == SubSeq(t, 1, n - 1) IN
    /\ Count(before, {"ovpn_peer_get"}) = 1
    /\ Count(before, {"ovpn_crypto_context_get"}) = 1
    /\ <<"ovpn_crypto_context_get", t[n][2]>> \in {before[i] : i \in 1..Len(before)}
    /\ Puts(before) = 0

\* the references of a finished trace t: with a submission, those acquired
\* before it are each released once after it; with none, the peer reference
\* taken, if any, is released once and no context reference is taken
Balanced(t) ==
    LET n == Submitted(t, 1)
        after == SubSeq(t, n + 1, Len(t))
    IN IF n > 0
       THEN /\ Acquired(t, n)
            /\ Gets(after) = 0
            /\ Count(after, {"ovpn_peer_put"}) = 1
            /\ Count(after, {"ovpn_crypto_context_put"}) = 1
            /\ <<"ovpn_crypto_context_put", t[n][2]>> \in {after[i] : i \in 1..Len(after)}
       ELSE /\ Count(t, {"ovpn_peer_get"}) <= 1
            /\ Count(t, {"ovpn_peer_put"}) = Count(t, {"ovpn_peer_get"})
            /\ Count(t, {"ovpn_crypto_context_get", "ovpn_crypto_context_put"}) = 0

\* how many pending operations hold the context of key k
Held(k) ==
    LET S == {w \in Works : w.cc = k} IN
    BagCardinality([w \in S |-> pending[w]])

\* C9: the references on the peer and on the crypto context are taken before
\* the submission to crypto and each released once after it, by the call or
\* by the callback; while operations are pending the peer is alive and its
\* counts are the installed ones plus one for each pending operation; on
\* paths without crypto the peer reference taken is released once; with
\* nothing pending the counts are the installed ones
C9_RefCounts ==
    /\ \A f \in RxFinished \cup TxFinished : Balanced(f.trace)
    /\ \A c \in RxCalls \cup TxCalls :
          c.deferred => Acquired(c.trace, Submitted(c.trace, 1))
    /\ pending # EmptyBag => peer.alive
    /\ ~peer.alive => peer = NoPeer
    /\ peer.alive =>
          /\ peer.refcount = (IF peer.installed THEN 1 ELSE 0)
                             + BagCardinality(pending)
          /\ \A k \in KeyIds :
                peer.ccref[k] = (IF k \in peer.keys THEN 1 ELSE 0) + Held(k)

\* the peer was removed while a crypto operation is pending: it is still
\* alive, held by that operation alone
C9_Witness ==
    /\ pending # EmptyBag
    /\ ~peer.installed /\ peer.alive
    /\ peer.refcount = BagCardinality(pending)

\* C10: a packet whose decrypt succeeded with the keepalive message as
\* plaintext refreshes the keepalive expiry of the peer, is not given to
\* netif_rx, and is consumed with tun_netdev_write returning 0
C10_Keepalive ==
    \A f \in RxFinished :
       f.ok /\ f.plain = KeepaliveMessage =>
          /\ "ovpn_peer_update_keepalive_expire" \in Names(f.trace)
          /\ "netif_rx" \notin Names(f.trace)
          /\ "tun_netdev_write=0" \in Names(f.trace)
          /\ "consume_skb" \in Names(f.trace)
          /\ ~Freed(f.trace)

\* a decrypted packet was consumed without reaching the interface
C10_Witness ==
    /\ last.via = "decrypt"
    /\ last.end = "consume_skb"

\* C11: a data packet from the bound peer whose key id has no crypto context
\* is dropped, whatever contexts the peer has for other key ids: its buffer is
\* freed, the peer reference taken by the lookup is released once, decrypt is
\* not called and no crypto context, installed or not, is looked at, referenced
\* or released, so that no replay window is reached and the counts of the peer
\* and of its contexts are what they were; it is not forwarded either
C11_UnknownKey ==
    \A c \in RxCalls :
       c.in.hasOvpn /\ c.isData /\ c.peerMatch /\ ~c.hasKey =>
          /\ ~c.deferred
          /\ Names(c.trace) \cap {"decrypt", "ovpn_crypto_context_get",
                                  "ovpn_crypto_context_put", "netif_rx",
                                  "ovpn_transport_to_userspace",
                                  "ovpn_peer_stats_increment_rx"} = {}
          /\ Count(c.trace, Disposals) = 1 /\ Freed(c.trace)
          /\ Count(c.trace, {"ovpn_peer_get"}) = 1
          /\ Count(c.trace, {"ovpn_peer_put"}) = 1
          /\ ApplyRefs(peer, c.trace) = peer

\* a data packet of the bound peer was dropped for want of a crypto context
\* for its key id while the peer had a context for another key id
C11_Witness ==
    /\ last.via = "ovpn_crypto_context_NULL"
    /\ last.end = "kfree_skb"
    /\ last.ctx # {}

\* C12: a packet whose encrypt reports an error, in the call or through the
\* callback, is not handed to the UDP socket, does not update the keepalive
\* xmit timestamp of the peer, and has its buffer freed, once
C12_EncryptFailure ==
    \A f \in TxFinished :
       "encrypt" \in Names(f.trace) /\ ~f.ok =>
          /\ Names(f.trace) \cap {"udp_tunnel_xmit_skb", "udp_tunnel6_xmit_skb",
                                  "ovpn_peer_update_keepalive_xmit"} = {}
          /\ Freed(f.trace)
          /\ Count(f.trace, Disposals) = 1

\* an encrypt that was deferred failed and the packet was freed
C12_Witness ==
    /\ last.mode = "deferred"
    /\ last.via = "encrypt"
    /\ last.crypto = "failed"
    /\ last.end = "kfree_skb"

(***************************************************************************)
(* Properties of the transmit counter.                                     *)
(***************************************************************************)
\* the packet ids of the calls that succeeded: returned already, and in flight
IdsOut == {issued[i].id : i \in {j \in 1..Len(issued) : issued[j].ret = OK}}
IdsInFlight == {thr[t].res.id : t \in {u \in InFlightCalls : thr[u].res.ret = OK}}

\* C13: from counter 0, the packet ids that next() hands out to concurrent
\* callers are pairwise distinct and are exactly 1..n for the n calls that
\* succeeded, so that the ids of N returned calls are a permutation of 1..N;
\* a call fails only when the id would reach the wrap limit.
C13_TxMonotonic ==
    /\ \A i, j \in 1..Len(issued) :
          i # j /\ issued[i].ret = OK /\ issued[j].ret = OK => issued[i].id # issued[j].id
    /\ IdsOut \cap IdsInFlight = {}
    /\ \A t, u \in InFlightCalls :
          t # u /\ thr[t].res.ret = OK /\ thr[u].res.ret = OK
             => thr[t].res.id # thr[u].res.id
    /\ IdsOut \cup IdsInFlight = 1..seq_num
    /\ InFlightCalls = {} /\ Len(issued) < XmitLimit
          => /\ \A i \in 1..Len(issued) : issued[i].ret = OK
             /\ {issued[i].id : i \in 1..Len(issued)} = 1..Len(issued)
    /\ \A i \in 1..Len(issued) : issued[i].ret # OK => seq_num + 1 >= XmitLimit

\* two calls on two CPUs returned in the order opposite to their atomic steps
C13_Witness ==
    /\ Len(issued) >= 2
    /\ issued[1].ret = OK /\ issued[1].id = 2
    /\ issued[2].ret = OK /\ issued[2].id = 1
    /\ issued[1].cpu # issued[2].cpu

\* C14: ovpn_net_xmit returns NET_XMIT_DROP exactly when the header probe
\* fails, there is no peer, the peer has no binding, or it has no primary
\* crypto context; it then reports the error on the buffer, frees it once, and
\* encrypt is never called. In every other case it returns NETDEV_TX_OK,
\* whatever encrypt and the UDP output do afterwards.
C14_TxDrop ==
    \A c \in TxCalls :
       c.entry = "xmit" =>
          LET refused == \/ ~c.probeOk
                         \/ ~c.peerInstalled
                         \/ ~c.bound
                         \/ ~c.hasPrimary
          IN IF refused
             THEN /\ c.ret = "NET_XMIT_DROP"
                  /\ ~c.deferred
                  /\ "encrypt" \notin Names(c.trace)
                  /\ Count(c.trace, {"skb_tx_error"}) = 1
                  /\ Count(c.trace, Disposals) = 1
                  /\ Freed(c.trace)
             ELSE /\ c.ret = "NETDEV_TX_OK"
                  /\ "encrypt" \in Names(c.trace)
                  /\ "skb_tx_error" \notin Names(c.trace)
                  /\ c.deferred \/ Count(c.trace, Disposals) = 1

\* a packet was dropped for a peer that is installed and bound but has no
\* primary crypto context
C14_Witness ==
    /\ last.drop /\ last.end = "kfree_skb" /\ last.via = "none"
    /\ peer.installed /\ peer.bind # NULL /\ peer.primary = {}

\* the RX byte counts and the keepalive refreshes of trace t
RxCounted(t) == SelectSeq(t, LAMBDA e : e[1] = "ovpn_peer_stats_increment_rx")
KeepaliveRefreshed(t) == Count(t, {"ovpn_peer_update_keepalive_expire"})

\* C18: a packet whose decrypt succeeded refreshes the keepalive timestamp
\* once and adds to the RX byte counter once, the size the packet had when it
\* was handed to decrypt (the UDP payload, larger than the plaintext), whether
\* the plaintext then passes the probe, is the keepalive message or is
\* malformed. A packet whose decrypt failed, that found no crypto context or
\* that was forwarded to the control plane changes neither.
C18_RxAccounting ==
    /\ \A f \in RxFinished :
          IF f.ok
          THEN /\ KeepaliveRefreshed(f.trace) = 1
               /\ RxCounted(f.trace) = EvA("ovpn_peer_stats_increment_rx", f.wlen)
               /\ f.wlen = Len(f.plain) + AeadOverhead
          ELSE /\ KeepaliveRefreshed(f.trace) = 0
               /\ RxCounted(f.trace) = <<>>
    /\ \A c \in RxCalls :
          c.deferred => KeepaliveRefreshed(c.trace) = 0 /\ RxCounted(c.trace) = <<>>

\* a packet was decrypted, counted with its size before decrypt, and then
\* dropped as malformed
C18_Witness ==
    /\ last.via = "decrypt"
    /\ last.end = "kfree_skb"
    /\ last.crypto = "done"
    /\ last.rx > AeadOverhead

\* the read-side guards held after event e, d being held before it
GuardDepth(d, e) ==
    IF e[1] = "rcu_read_lock" THEN d + 1
    ELSE IF e[1] = "rcu_read_unlock" THEN d - 1
    ELSE d

\* from event n of trace t on, d guards being held before it: guards are
\* taken one at a time, each is released, none is held at the end, and none
\* is held where the buffer goes to encrypt or decrypt
RECURSIVE GuardsFrom(_, _, _)
GuardsFrom(t, n, d) ==
    IF n > Len(t) THEN d = 0
    ELSE /\ GuardDepth(d, t[n]) \in {0, 1}
         /\ t[n][1] \in {"encrypt", "decrypt"} => d = 0
         /\ GuardsFrom(t, n + 1, GuardDepth(d, t[n]))

GuardsMatched(t) == GuardsFrom(t, 1, 0)

\* the traces of every function that takes the guard, called in this state
\* or after another CPU took the binding away, of every entry point, and of
\* every packet whose handling can end in this state
GuardedRuns ==
    {tun_netdev_write([len |-> Len(d), rx_stats_size |-> WireLen(d),
                       data |-> d]).trace : d \in Payloads}
    \cup {ovpn_lookup_peer_via_transport(peer, src).trace : src \in {PeerAddr, "B"}}
    \cup {ovpn_udp_write(q, o) : q \in {peer, Unbound(peer)}, o \in Outs(TRUE)}
    \cup {do_ovpn_net_xmit(peer, IF k.unbind THEN Unbound(peer) ELSE peer,
                           k.enc, k.out).trace : k \in Encrypts(TRUE, TRUE)}
    \cup {c.trace : c \in RxCalls}
    \cup {c.trace : c \in TxCalls}
    \cup {f.trace : f \in RxCompleted}
    \cup {f.trace : f \in TxCompleted}

\* C19: every rcu_read_lock is followed by exactly one rcu_read_unlock before
\* the function that took it returns, on the error paths too, and no guard is
\* held at the call of encrypt or decrypt.
C19_GuardDiscipline == \A t \in GuardedRuns : GuardsMatched(t)

\* ovpn_net_xmit took the guard in do_ovpn_net_xmit, found no binding and was
\* dropped
C19_Witness ==
    /\ last.drop /\ last.guards = 1
    /\ peer.installed /\ peer.bind = NULL

(***************************************************************************)
(* Further properties of the replay detector.                              *)
(***************************************************************************)
\* the probe is the packet at position k of the window of the current epoch
ProbeAt(k) == probe = <<pr.id - k, pr.time>>

\* C15: extent never exceeds the window size, every position of [0, extent)
\* stands for an id of at least 1, and the history bit of position k, at
\* index (base + k) mod W, is set exactly when the id (id - k) was accepted in
\* the current epoch; bits left from before never show inside [0, extent).
C15_WindowInvariant ==
    /\ pr.extent <= W
    /\ pr.extent <= pr.id
    /\ \A k \in 0..(pr.extent - 1) :
          ProbeAt(k) => (REPLAY_INDEX(pr.base, k) \in pr.history <=> hits >= 1)

\* in the second epoch the window is full again, a bit outside it is left
\* from before, and the probe is an id inside it that was skipped
C15_Witness ==
    /\ pr.time > 0
    /\ pr.extent >= 2
    /\ \E k \in 1..(pr.extent - 1) :
          /\ ProbeAt(k)
          /\ REPLAY_INDEX(pr.base, k) \notin pr.history
    /\ hits = 0
    /\ \E b \in pr.history : \A k \in 0..(pr.extent - 1) : REPLAY_INDEX(pr.base, k) # b

\* what holds of the floor in every state: it is an id accepted in the epoch
\* or 0; a packet of the epoch at or below the floor in force is rejected,
\* with EXPIRE when it is inside the window, whatever its history bit; a packet
\* of the epoch above the highest id is accepted
FloorRejects ==
    /\ pr.id_floor <= pr.id
    /\ (probe[2] = pr.time /\ probe[1] <= FloorNow) =>
          ProbeCall.ret = (IF probe[1] = 0 THEN ERR_ID_ZERO
                           ELSE IF pr.id - probe[1] < pr.extent THEN ERR_EXPIRE
                           ELSE ERR_ID_BACKTRACK)
    /\ (probe[2] = pr.time /\ probe[1] > pr.id) => ProbeCall.ret = OK

\* what holds of every call (the steps that leave jiffies alone): an accepted
\* packet sets expire to now + PKTID_RECV_EXPIRE and a rejected one leaves it;
\* a call that sees now >= expire and stays in the epoch leaves the floor at
\* the highest id accepted before it; within an epoch the floor never lowers
FloorStep ==
    /\ now' = now =>
          /\ ret' = OK => pr'.expire = now + PKTID_RECV_EXPIRE
          /\ ret' \notin {OK, NoCall} => pr'.expire = pr.expire
          /\ (time_after_eq(now, pr.expire) /\ pr'.time = pr.time)
                => pr'.id_floor = pr.id
    /\ pr'.time = pr.time => pr'.id_floor >= pr.id_floor
    /\ pr'.time # pr.time => pr'.id_floor = 0

\* C16: every accepted packet sets expire to now + PKTID_RECV_EXPIRE and a
\* rejected one does not move it; a call that observes now >= expire raises
\* the floor to the highest id accepted so far; from then on every packet of
\* the same epoch at or below the floor is rejected (EXPIRE inside the
\* window, even with its bit clear), and ids above the highest id are still
\* accepted.
C16_ExpireFloor == []FloorRejects /\ [][FloorStep]_vars

\* the probe, an id inside the window that was never accepted, was rejected
\* with EXPIRE after the floor rose to the highest id
C16_Witness ==
    /\ ret = ERR_EXPIRE /\ hits = 0
    /\ pr.id_floor = pr.id /\ pr.id > 1
    /\ \E k \in 1..(pr.extent - 1) :
          ProbeAt(k) /\ REPLAY_INDEX(pr.base, k) \notin pr.history

\* C20: a call that rejects its packet, for whichever of the five reasons,
\* leaves base, extent, id, time, expire and history as they were; id_floor
\* and max_backtrack are all it may change.
C20_RejectKeepsWindow ==
    LET r == ProbeCall IN
    r.ret # OK =>
       /\ r.ret \in {ERR_ID_ZERO, ERR_TIME_BACKTRACK, ERR_REPLAY,
                     ERR_ID_BACKTRACK, ERR_EXPIRE}
       /\ r.pr = [pr EXCEPT !.id_floor = r.pr.id_floor,
                            !.max_backtrack = r.pr.max_backtrack]

\* the probe, of an older epoch, was rejected by a call that found the
\* deadline passed on a window that holds ids: the floor is at the highest id
C20_Witness ==
    /\ ret = ERR_TIME_BACKTRACK
    /\ probe[2] < pr.time
    /\ pr.extent > 1 /\ pr.id_floor = pr.id
    /\ now >= pr.expire

(***************************************************************************)
(* Properties of concurrent calls of ovpn_pktid_recv.                      *)
(***************************************************************************)
\* the CPUs between spin_lock and spin_unlock, those that have decided, and
\* those between their read and their write of *pr
InCritical == {t \in Threads : thr[t].pc \in {"locked", "decided", "written"}}
Decided == {t \in Threads : thr[t].pc \in {"decided", "written", "done"}}
Writing == {t \in Threads : thr[t].pc = "decided"}

\* C17: calls of ovpn_pktid_recv on several CPUs run their critical sections
\* one at a time; every call returns what it returns when the calls are made
\* one after the other in the order of their critical sections, and *pr is
\* then what that sequence leaves; of the calls that present the same
\* (id, epoch), at most one returns 0.
C17_AtomicDecision ==
    /\ Cardinality(InCritical) <= 1
    /\ \A t \in InCritical : lock = t
    /\ \A t \in Decided : thr[t].res.ret = thr[t].res.seq
    /\ Writing = {} => pr = seqpr
    /\ \A t, u \in Decided :
          (t # u /\ thr[t].arg = thr[u].arg) =>
             ~(thr[t].res.ret = OK /\ thr[u].res.ret = OK)

\* one CPU waits for the lock with the packet that the CPU holding the lock
\* has just decided to accept
C17_Witness ==
    \E t, u \in Threads :
       /\ thr[t].pc = "spin_lock"
       /\ thr[u].pc = "decided" /\ lock = u
       /\ thr[t].arg = thr[u].arg
       /\ thr[u].res.ret = OK

====
